---- MODULE Spec2Model ----
(***************************************************************************)
(* Model of the RTC periodic wakeup example (src/main.c): the boot path of *)
(* main, the press sampling and classification of get_switch_event, the    *)
(* bounded retry loops of rtc_init and rtc_alarmconfig, the DeepSleep and  *)
(* Hibernate branches of the control loop, and the alarm interrupt handler *)
(* that preempts the control loop.                                         *)
(***************************************************************************)
EXTENDS Integers, Sequences, FiniteSets, TLC

(* ------------------------------------------------------------------ *)
(* Program constants (src/main.c macros)                               *)
(* ------------------------------------------------------------------ *)
MAX_ATTEMPTS == 500
SHORT_PRESS_COUNT == 10
LONG_PRESS_COUNT == 200

(* ------------------------------------------------------------------ *)
(* Bounds of the model                                                  *)
(* ------------------------------------------------------------------ *)
\* longest press (in 10 ms polling quanta) the input line produces
MaxPress == 202
\* most alarm interrupts the RTC raises after one successful arming
MaxFires == 2

(* uint32_t 0u - 1u: the value 0xFFFFFFFF, written as its two's complement
   reading because the checker's integers are 32 bit signed *)
UINT32_WRAPPED == 0 - 1

CY_RTC_SUCCESS == "CY_RTC_SUCCESS"
RtcFailure == {"CY_RTC_BAD_PARAM", "CY_RTC_TIMEOUT", "CY_RTC_INVALID_STATE", "CY_RTC_UNKNOWN"}
RtcStatus == {CY_RTC_SUCCESS} \cup RtcFailure

SWITCH_NO_EVENT == "SWITCH_NO_EVENT"
SWITCH_SHORT_PRESS == "SWITCH_SHORT_PRESS"
SWITCH_LONG_PRESS == "SWITCH_LONG_PRESS"

MsgBanner == "PDL: RTC periodic wakeup alarm example"
MsgHibWakeup == "Wakeup from the Hibernate mode"
MsgCurrent == "Current date and time"
MsgGoDeepSleep == "Go to DeepSleep mode"
MsgWakeDeepSleep == "Wakeup from DeepSleep mode"
MsgGoHibernate == "Go to Hibernate mode"
MsgAlarm == "RTC alarm will be generated after 1 second"
MsgNoHibernate == "The CPU did not enter Hibernate mode"

VARIABLES
    NDEBUG,       \* build option: CY_ASSERT compiles to nothing when defined
    pc,           \* position of main (and of the function it is in)
    irq_enabled,  \* global interrupt enable (__enable_irq / __disable_irq)
    nvic_enabled, \* NVIC_EnableIRQ(srss_interrupt_backup_IRQn) done
    irqPending,   \* the RTC alarm interrupt is pending
    firesLeft,    \* alarm interrupts the RTC will still raise
    fired,        \* alarm interrupts raised since the last successful arming
    resetReason,  \* Cy_SysLib_GetResetReason()
    hibWakeSrc,   \* wake source selected by Cy_SysPm_SetHibernateWakeupSource
    attempts,     \* rtc_init / rtc_alarmconfig: attempts
    rtc_result,   \* rtc_init / rtc_alarmconfig: rtc_result
    press_count,  \* get_switch_event: press_count
    event,        \* get_switch_event: event, then the value main switches on
    alarm_flag,   \* global alarm_flag
    log,          \* console lines since boot or since the current press cycle began
    calls,        \* invocations of the retried operation in the current retry loop
    nFail,        \* of which returned a failure
    lastOutcome,  \* outcome the peripheral gave to the latest invocation
    armRet,       \* value rtc_alarmconfig returned in this press cycle, or "NONE"
    sleepIssued,  \* sleep instruction issued in this press cycle, or "none"
    bootFailed,   \* cybsp_init or rtc_init did not return success in this boot
    wakeSrcSelected, \* Cy_SysPm_SetHibernateWakeupSource was called in this press cycle
    gse_delays,   \* 10 ms delays made by the current or latest call of get_switch_event
    pair,         \* rtc_init and rtc_alarmconfig run side by side (SpecPair only)
    fmt           \* convert_date_to_string: field being written (SpecFmt only)

vars == << NDEBUG, pc, irq_enabled, nvic_enabled, irqPending, firesLeft, fired,
           resetReason, hibWakeSrc, attempts, rtc_result, press_count,
           event, alarm_flag, log, calls, nFail, lastOutcome, armRet,
           sleepIssued, bootFailed, wakeSrcSelected, gse_delays, pair, fmt >>

hw == << NDEBUG, firesLeft, fired, resetReason, hibWakeSrc, pair, fmt >>
irqs == << irq_enabled, nvic_enabled, irqPending >>
retry == << attempts, rtc_result, calls, nFail, lastOutcome >>
cycle == << armRet, sleepIssued, wakeSrcSelected >>

BootPcs == {"cybsp_init", "uart_init", "uart_hal_setup", "retarget_io_init",
            "setup", "reset_reason", "ri_entry", "ri_loop", "ri_ret", "print_time"}
LoopPcs == {"gse_poll", "gse_classify", "gse_settle", "ds_log", "hib_log",
            "ac_entry", "ac_loop", "ac_ret", "ds_delay", "ds_sleep", "wfi",
            "ds_wake_log", "hib_delay", "hib_src", "hib_enter", "hib_reject"}
AllPcs == BootPcs \cup LoopPcs \cup {"hibernate", "halt"}

(* ------------------------------------------------------------------ *)
(* Pure helpers                                                         *)
(* ------------------------------------------------------------------ *)

\* CY_ASSERT(0): stops the CPU in a debug build, is empty under NDEBUG
CY_ASSERT_0(next) == IF NDEBUG THEN next ELSE "halt"

\* uint32_t attempts--
Dec32(a) == IF a = 0 THEN UINT32_WRAPPED ELSE a - 1

\* classify with the thresholds compared by >= instead of >
classify_inclusive(count) ==
    IF count >= LONG_PRESS_COUNT THEN SWITCH_LONG_PRESS
    ELSE IF count >= SHORT_PRESS_COUNT THEN SWITCH_SHORT_PRESS
    ELSE SWITCH_NO_EVENT

\* the classification at the end of get_switch_event
classify(count) ==
    IF count > LONG_PRESS_COUNT THEN SWITCH_LONG_PRESS
    ELSE IF count > SHORT_PRESS_COUNT THEN SWITCH_SHORT_PRESS
    ELSE SWITCH_NO_EVENT

\* rtc_init's while condition without the test of attempts
rtc_init_again_result_only(res, att) == res # CY_RTC_SUCCESS

\* rtc_init's while condition giving up one attempt early
rtc_init_again_one_short(res, att) == (res # CY_RTC_SUCCESS) /\ (att > 1)

\* while condition of the do-loop in rtc_init
rtc_init_again(res, att) == (res # CY_RTC_SUCCESS) /\ (att # 0)

\* rtc_alarmconfig's while condition without the test of rtc_result
rtc_alarmconfig_again_budget_only(res, att) == att # 0

\* rtc_alarmconfig's while condition giving up one attempt early
rtc_alarmconfig_again_one_short(res, att) == (res # CY_RTC_SUCCESS) /\ (att > 1)

\* while condition of the do-loop in rtc_alarmconfig
rtc_alarmconfig_again(res, att) == (res # CY_RTC_SUCCESS) /\ (att # 0)

\* value rtc_alarmconfig returns
rtc_alarmconfig_return(res) == res

\* switch with the bodies of the two case labels exchanged
switch_target_swapped(ev) ==
    IF ev = SWITCH_SHORT_PRESS THEN "hib_log"
    ELSE IF ev = SWITCH_LONG_PRESS THEN "ds_log"
    ELSE "gse_poll"

\* case label main's switch selects for the value of get_switch_event()
switch_target(ev) ==
    IF ev = SWITCH_SHORT_PRESS THEN "ds_log"
    ELSE IF ev = SWITCH_LONG_PRESS THEN "hib_log"
    ELSE "gse_poll"

\* statement of main that follows the call of rtc_alarmconfig
after_alarmconfig(ev) == IF ev = SWITCH_SHORT_PRESS THEN "ds_delay" ELSE "hib_delay"

\* the alarm armed again after the wake instead of before the sleep
after_deepsleep_rearm == "ac_entry"

\* statement that follows the return of Cy_SysPm_CpuEnterDeepSleep
after_deepsleep == "ds_wake_log"

\* debug_printf / printf: one more console line
debug_printf(l, str) == Append(l, str)

\* the reset reason test with the comparison inverted
is_hib_wakeup_inverted(reason) == reason # "HIB_WAKEUP"

\* CY_SYSLIB_RESET_HIB_WAKEUP == (Cy_SysLib_GetResetReason() & CY_SYSLIB_RESET_HIB_WAKEUP)
is_hib_wakeup(reason) == reason = "HIB_WAKEUP"

\* the Long branch announcing itself with the wake line of the Short branch
hibernate_branch_log_wake(l) == debug_printf(l, MsgWakeDeepSleep)

\* case SWITCH_LONG_PRESS: debug_printf("Go to Hibernate mode")
hibernate_branch_log(l) == debug_printf(l, MsgGoHibernate)

\* the deep-sleep call left out: execution runs on to the wake line
enter_deepsleep_no_wait == "ds_wake_log"

\* Cy_SysPm_CpuEnterDeepSleep(CY_SYSPM_WAIT_FOR_INTERRUPT): the CPU waits
enter_deepsleep == "wfi"

\* the selection of the wake source left out
after_hib_delay_no_source == "hib_enter"

\* statement after the 100 ms delay of the Long branch: select the wake source
after_hib_delay == "hib_src"

\* statement after Cy_SysPm_SetHibernateWakeupSource: enter Hibernate
after_hib_src == "hib_enter"

\* the handler toggling the flag instead of setting it
alarm2_flag_toggle(flag) == 1 - flag

\* Cy_RTC_Alarm2Interrupt: alarm_flag = 1u;
alarm2_flag(flag) == 1

\* press_count advanced by the delay in ms instead of by one
press_count_inc_ms(c) == c + 10

\* get_switch_event: press_count++
press_count_inc(c) == c + 1


(* ------------------------------------------------------------------ *)
(* The two retry loops as functions of the loop state                   *)
(* ------------------------------------------------------------------ *)

\* loop state on entry: attempts = MAX_ATTEMPTS, nothing called, no delay made
PairSide == [attempts |-> MAX_ATTEMPTS, rtc_result |-> "NONE", calls |-> 0,
             delays |-> 0, done |-> FALSE]

PairStart == [init |-> PairSide, alarm |-> PairSide]

\* rtc_init: rtc_result = Cy_RTC_Init(); attempts--; Cy_SysLib_Delay(5); while (...)
rtc_init_step(st, r) ==
    [attempts |-> Dec32(st.attempts), rtc_result |-> r, calls |-> st.calls + 1,
     delays |-> st.delays + 1, done |-> ~rtc_init_again(r, Dec32(st.attempts))]

\* rtc_alarmconfig: rtc_result = Cy_RTC_SetAlarmDateAndTime(); attempts--;
\* Cy_SysLib_Delay(5); while (...)
rtc_alarmconfig_step(st, r) ==
    [attempts |-> Dec32(st.attempts), rtc_result |-> r, calls |-> st.calls + 1,
     delays |-> st.delays + 1, done |-> ~rtc_alarmconfig_again(r, Dec32(st.attempts))]

(* ------------------------------------------------------------------ *)
(* convert_date_to_string                                               *)
(* ------------------------------------------------------------------ *)

\* char secbuf[2], minbuf[2], hourbuf[2], daybuf[2], monthbuf[2], yearbuf[2];
FIELD_BUF_SIZE == 2

\* the fields in the order of the sprintf calls
FmtFields == << "sec", "min", "hour", "day", "month", "year" >>

\* values Cy_RTC_GetDateAndTime gives to each field
FieldRange(f) ==
    CASE f = "sec"   -> 0..59
      [] f = "min"   -> 0..59
      [] f = "hour"  -> 0..23
      [] f = "day"   -> 1..31
      [] f = "month" -> 1..12
      [] f = "year"  -> 0..99

\* "%d" of a value >= 0: its decimal digits, most significant first
RECURSIVE DecimalDigits(_)
DecimalDigits(v) ==
    IF v < 10 THEN << v >> ELSE Append(DecimalDigits(v \div 10), v % 10)

\* sprintf(buf, "%d", (int)v): chars stored in buf, the terminating NUL included
sprintf_written(v) == Len(DecimalDigits(v)) + 1

\* before the first sprintf of a call: no field written yet
FmtStart == [idx |-> 0, value |-> 0, written |-> 0]

(* ------------------------------------------------------------------ *)
(* Initial state: reset, main about to run                              *)
(* ------------------------------------------------------------------ *)
Init ==
    /\ NDEBUG \in BOOLEAN
    /\ pc = "cybsp_init"
    /\ irq_enabled = FALSE
    /\ nvic_enabled = FALSE
    /\ irqPending = FALSE
    /\ firesLeft = 0
    /\ fired = 0
    /\ resetReason \in {"POWER_ON", "HIB_WAKEUP"}
    /\ hibWakeSrc = "NONE"
    /\ attempts = 0
    /\ rtc_result = "NONE"
    /\ press_count = 0
    /\ event = SWITCH_NO_EVENT
    /\ alarm_flag = 0
    /\ log = << >>
    /\ calls = 0
    /\ nFail = 0
    /\ lastOutcome = "NONE"
    /\ armRet = "NONE"
    /\ sleepIssued = "none"
    /\ bootFailed = FALSE
    /\ wakeSrcSelected = FALSE
    /\ gse_delays = 0
    /\ pair = PairStart
    /\ fmt = FmtStart

(* ------------------------------------------------------------------ *)
(* Boot path of main                                                    *)
(* ------------------------------------------------------------------ *)

\* result = cybsp_init(); if (result != CY_RSLT_SUCCESS) handle_error();
\* handle_error: __disable_irq(); CY_ASSERT(0);
BoardInit ==
    /\ pc = "cybsp_init"
    /\ \E ok \in BOOLEAN :
         IF ok
         THEN /\ pc' = "uart_init"
              /\ UNCHANGED << irq_enabled, bootFailed >>
         ELSE /\ irq_enabled' = FALSE
              /\ pc' = CY_ASSERT_0("uart_init")
              /\ bootFailed' = TRUE
    /\ UNCHANGED << hw, nvic_enabled, irqPending, retry, press_count, gse_delays,
                    event, alarm_flag, log, cycle >>

\* Cy_SCB_UART_Init, mtb_hal_uart_setup, cy_retarget_io_init, each followed by
\* if (result != CY_RSLT_SUCCESS) CY_ASSERT(0);
UartStep(here, next) ==
    /\ pc = here
    /\ \E ok \in BOOLEAN :
         pc' = IF ok THEN next ELSE CY_ASSERT_0(next)
    /\ UNCHANGED << hw, irqs, retry, press_count, gse_delays, event, alarm_flag,
                    log, cycle, bootFailed >>

UartInit == UartStep("uart_init", "uart_hal_setup")
UartHalSetup == UartStep("uart_hal_setup", "retarget_io_init")
RetargetIoInit == UartStep("retarget_io_init", "setup")

\* banner, user button, RTC interrupt mask, ISR registration,
\* NVIC_ClearPendingIRQ, NVIC_EnableIRQ
Setup ==
    /\ pc = "setup"
    /\ log' = debug_printf(log, MsgBanner)
    /\ irqPending' = FALSE
    /\ nvic_enabled' = TRUE
    /\ pc' = "reset_reason"
    /\ UNCHANGED << hw, irq_enabled, retry, press_count, gse_delays, event,
                    alarm_flag, cycle, bootFailed >>

\* if (CY_SYSLIB_RESET_HIB_WAKEUP == (Cy_SysLib_GetResetReason() & ...))
CheckResetReason ==
    /\ pc = "reset_reason"
    /\ log' = IF is_hib_wakeup(resetReason) THEN debug_printf(log, MsgHibWakeup) ELSE log
    /\ pc' = "ri_entry"
    /\ UNCHANGED << hw, irqs, retry, press_count, gse_delays, event, alarm_flag,
                    cycle, bootFailed >>

\* rtc_init: uint32_t attempts = MAX_ATTEMPTS;
RtcInitEntry ==
    /\ pc = "ri_entry"
    /\ attempts' = MAX_ATTEMPTS
    /\ rtc_result' = "NONE"
    /\ calls' = 0
    /\ nFail' = 0
    /\ lastOutcome' = "NONE"
    /\ pc' = "ri_loop"
    /\ UNCHANGED << hw, irqs, press_count, gse_delays, event, alarm_flag, log,
                    cycle, bootFailed >>

\* rtc_init: one pass of do { rtc_result = Cy_RTC_Init(); attempts--; delay } while (...)
RtcInitAttempt ==
    /\ pc = "ri_loop"
    /\ \E r \in RtcStatus :
         /\ rtc_result' = r
         /\ lastOutcome' = r
         /\ nFail' = IF r = CY_RTC_SUCCESS THEN nFail ELSE nFail + 1
         /\ attempts' = Dec32(attempts)
         /\ calls' = calls + 1
         /\ pc' = IF rtc_init_again(r, Dec32(attempts)) THEN "ri_loop" ELSE "ri_ret"
    /\ UNCHANGED << hw, irqs, press_count, gse_delays, event, alarm_flag, log,
                    cycle, bootFailed >>

\* rtcSta = rtc_init(); if (rtcSta != CY_RTC_SUCCESS) handle_error();
RtcInitReturn ==
    /\ pc = "ri_ret"
    /\ IF rtc_result # CY_RTC_SUCCESS
       THEN /\ irq_enabled' = FALSE
            /\ pc' = CY_ASSERT_0("print_time")
            /\ bootFailed' = TRUE
       ELSE /\ pc' = "print_time"
            /\ UNCHANGED << irq_enabled, bootFailed >>
    /\ attempts' = 0
    /\ rtc_result' = "NONE"
    /\ calls' = 0
    /\ nFail' = 0
    /\ lastOutcome' = "NONE"
    /\ UNCHANGED << hw, nvic_enabled, irqPending, press_count, gse_delays, event,
                    alarm_flag, log, cycle >>

\* debug_printf("Current date and time"); __enable_irq(); for (;;) get_switch_event()
PrintTime ==
    /\ pc = "print_time"
    /\ log' = debug_printf(log, MsgCurrent)
    /\ irq_enabled' = TRUE
    /\ press_count' = 0
    /\ gse_delays' = 0
    /\ event' = SWITCH_NO_EVENT
    /\ pc' = "gse_poll"
    /\ UNCHANGED << hw, nvic_enabled, irqPending, retry, alarm_flag,
                    cycle, bootFailed >>

(* ------------------------------------------------------------------ *)
(* get_switch_event                                                     *)
(* ------------------------------------------------------------------ *)

\* while (Cy_GPIO_Read(...) == CYBSP_BTN_PRESSED) { Cy_SysLib_Delay(10); press_count++; }
\* one read of the input line: pressed, or released
PollPressed ==
    /\ pc = "gse_poll"
    /\ press_count < MaxPress
    /\ press_count' = press_count_inc(press_count)
    /\ gse_delays' = (IF press_count = 0 THEN 0 ELSE gse_delays) + 1
    /\ UNCHANGED << pc, hw, irqs, retry, event, alarm_flag, log, cycle, bootFailed >>

PollReleased ==
    /\ pc = "gse_poll"
    /\ pc' = "gse_classify"
    /\ gse_delays' = IF press_count = 0 THEN 0 ELSE gse_delays
    /\ UNCHANGED << hw, irqs, retry, press_count, event, alarm_flag, log,
                    cycle, bootFailed >>

\* if (press_count > LONG_PRESS_COUNT) ... else if (press_count > SHORT_PRESS_COUNT) ...
Classify ==
    /\ pc = "gse_classify"
    /\ event' = classify(press_count)
    /\ pc' = "gse_settle"
    /\ UNCHANGED << hw, irqs, retry, press_count, gse_delays, alarm_flag, log, cycle, bootFailed >>

\* Cy_SysLib_Delay(SHORT_GLITCH_DELAY_MS); return event;  main: switch (...)
\* a Short or Long event begins a press cycle
SettleAndSwitch ==
    /\ pc = "gse_settle"
    /\ pc' = switch_target(event)
    /\ press_count' = 0
    /\ gse_delays' = gse_delays + 1
    /\ log' = IF event = SWITCH_NO_EVENT THEN log ELSE << >>
    /\ UNCHANGED << hw, irqs, retry, event, alarm_flag, cycle, bootFailed >>

(* ------------------------------------------------------------------ *)
(* rtc_alarmconfig                                                      *)
(* ------------------------------------------------------------------ *)

\* uint32_t attempts = MAX_ATTEMPTS; debug_printf("RTC alarm will be generated ...");
AlarmConfigEntry ==
    /\ pc = "ac_entry"
    /\ attempts' = MAX_ATTEMPTS
    /\ rtc_result' = "NONE"
    /\ calls' = 0
    /\ nFail' = 0
    /\ lastOutcome' = "NONE"
    /\ log' = debug_printf(log, MsgAlarm)
    /\ pc' = "ac_loop"
    /\ UNCHANGED << hw, irqs, press_count, gse_delays, event, alarm_flag, cycle, bootFailed >>

\* one pass of do { rtc_result = Cy_RTC_SetAlarmDateAndTime(); attempts--; delay } while (...)
\* a successful call arms the alarm: the RTC will raise 1..MaxFires interrupts
AlarmConfigAttempt ==
    /\ pc = "ac_loop"
    /\ \E r \in RtcStatus :
         /\ rtc_result' = r
         /\ lastOutcome' = r
         /\ nFail' = IF r = CY_RTC_SUCCESS THEN nFail ELSE nFail + 1
         /\ attempts' = Dec32(attempts)
         /\ calls' = calls + 1
         /\ pc' = IF rtc_alarmconfig_again(r, Dec32(attempts)) THEN "ac_loop" ELSE "ac_ret"
         /\ IF r = CY_RTC_SUCCESS
            THEN /\ firesLeft' \in 1..MaxFires
                 /\ fired' = 0
            ELSE UNCHANGED << firesLeft, fired >>
    /\ UNCHANGED << NDEBUG, pair, fmt, resetReason, hibWakeSrc, irqs, press_count, gse_delays, event,
                    alarm_flag, log, cycle, bootFailed >>

\* return (rtc_result);  main discards the value
AlarmConfigReturn ==
    /\ pc = "ac_ret"
    /\ armRet' = rtc_alarmconfig_return(rtc_result)
    /\ pc' = after_alarmconfig(event)
    /\ attempts' = 0
    /\ rtc_result' = "NONE"
    /\ calls' = 0
    /\ nFail' = 0
    /\ lastOutcome' = "NONE"
    /\ UNCHANGED << hw, irqs, press_count, gse_delays, event, alarm_flag, log,
                    sleepIssued, wakeSrcSelected, bootFailed >>

(* ------------------------------------------------------------------ *)
(* case SWITCH_SHORT_PRESS                                              *)
(* ------------------------------------------------------------------ *)

\* debug_printf("Go to DeepSleep mode"); rtc_alarmconfig();
DeepSleepLog ==
    /\ pc = "ds_log"
    /\ log' = debug_printf(log, MsgGoDeepSleep)
    /\ pc' = "ac_entry"
    /\ gse_delays' = 0
    /\ UNCHANGED << hw, irqs, retry, press_count, event, alarm_flag, cycle, bootFailed >>

\* Cy_SysLib_Delay(LONG_GLITCH_DELAY_MS);
DeepSleepDelay ==
    /\ pc = "ds_delay"
    /\ pc' = "ds_sleep"
    /\ UNCHANGED << hw, irqs, retry, press_count, gse_delays, event, alarm_flag, log,
                    cycle, bootFailed >>

\* Cy_SysPm_CpuEnterDeepSleep(CY_SYSPM_WAIT_FOR_INTERRUPT): the CPU stops until
\* an interrupt is taken
EnterDeepSleep ==
    /\ pc = "ds_sleep"
    /\ sleepIssued' = "deepsleep"
    /\ pc' = enter_deepsleep
    /\ UNCHANGED << hw, irqs, retry, press_count, gse_delays, event, alarm_flag, log,
                    armRet, wakeSrcSelected, bootFailed >>

\* debug_printf("Wakeup from DeepSleep mode"); break;
DeepSleepWakeLog ==
    /\ pc = "ds_wake_log"
    /\ log' = debug_printf(log, MsgWakeDeepSleep)
    /\ pc' = "gse_poll"
    /\ event' = SWITCH_NO_EVENT
    /\ armRet' = "NONE"
    /\ sleepIssued' = "none"
    /\ wakeSrcSelected' = FALSE
    /\ UNCHANGED << hw, irqs, retry, press_count, gse_delays, alarm_flag, bootFailed >>

(* ------------------------------------------------------------------ *)
(* case SWITCH_LONG_PRESS                                               *)
(* ------------------------------------------------------------------ *)

\* debug_printf("Go to Hibernate mode"); rtc_alarmconfig();
HibernateLog ==
    /\ pc = "hib_log"
    /\ log' = hibernate_branch_log(log)
    /\ pc' = "ac_entry"
    /\ gse_delays' = 0
    /\ UNCHANGED << hw, irqs, retry, press_count, event, alarm_flag, cycle, bootFailed >>

\* Cy_SysLib_Delay(LONG_GLITCH_DELAY_MS);
HibernateDelay ==
    /\ pc = "hib_delay"
    /\ pc' = after_hib_delay
    /\ UNCHANGED << hw, irqs, retry, press_count, gse_delays, event, alarm_flag, log,
                    cycle, bootFailed >>

\* Cy_SysPm_SetHibernateWakeupSource(CY_SYSPM_HIBERNATE_RTC_ALARM);
SetHibernateWakeupSource ==
    /\ pc = "hib_src"
    /\ hibWakeSrc' = "RTC_ALARM"
    /\ wakeSrcSelected' = TRUE
    /\ pc' = after_hib_src
    /\ UNCHANGED << NDEBUG, pair, fmt, firesLeft, fired, resetReason, irqs, retry,
                    press_count, gse_delays, event, alarm_flag, log, armRet,
                    sleepIssued, bootFailed >>

\* if (CY_SYSPM_SUCCESS != Cy_SysPm_SystemEnterHibernate()): the platform powers
\* down, or refuses and the call returns
EnterHibernate ==
    /\ pc = "hib_enter"
    /\ sleepIssued' = "hibernate"
    /\ \E accepted \in BOOLEAN :
         pc' = IF accepted THEN "hibernate" ELSE "hib_reject"
    /\ UNCHANGED << hw, irqs, retry, press_count, gse_delays, event, alarm_flag, log,
                    armRet, wakeSrcSelected, bootFailed >>

\* printf("The CPU did not enter Hibernate mode"); CY_ASSERT(0); break;
HibernateRejected ==
    /\ pc = "hib_reject"
    /\ log' = debug_printf(log, MsgNoHibernate)
    /\ pc' = CY_ASSERT_0("gse_poll")
    /\ IF NDEBUG
       THEN /\ event' = SWITCH_NO_EVENT
            /\ armRet' = "NONE"
            /\ sleepIssued' = "none"
            /\ wakeSrcSelected' = FALSE
       ELSE UNCHANGED << event, armRet, sleepIssued, wakeSrcSelected >>
    /\ UNCHANGED << hw, irqs, retry, press_count, gse_delays, alarm_flag, bootFailed >>

(* ------------------------------------------------------------------ *)
(* RTC alarm, interrupt handler, wake from Hibernate                    *)
(* ------------------------------------------------------------------ *)

\* the armed alarm goes off: the RTC raises its interrupt
AlarmFire ==
    /\ pc # "hibernate"
    /\ firesLeft > 0
    /\ firesLeft' = firesLeft - 1
    /\ fired' = fired + 1
    /\ irqPending' = TRUE
    /\ UNCHANGED << NDEBUG, pair, fmt, pc, resetReason, hibWakeSrc, irq_enabled, nvic_enabled,
                    retry, press_count, gse_delays, event, alarm_flag, log, cycle, bootFailed >>

\* rtc_interrupt_handler -> Cy_RTC_Interrupt -> Cy_RTC_Alarm2Interrupt: alarm_flag = 1u;
\* taking the interrupt ends a wait in Cy_SysPm_CpuEnterDeepSleep
Cy_RTC_Alarm2Interrupt ==
    /\ irqPending /\ irq_enabled /\ nvic_enabled
    /\ pc # "hibernate"
    /\ irqPending' = FALSE
    /\ alarm_flag' = alarm2_flag(alarm_flag)
    /\ pc' = IF pc = "wfi" THEN after_deepsleep ELSE pc
    /\ UNCHANGED << hw, irq_enabled, nvic_enabled, retry, press_count, gse_delays, event,
                    log, cycle, bootFailed >>

\* the alarm goes off while the device is in Hibernate and the alarm is the
\* selected wake source: the device resets and main starts again
HibernateWakeup ==
    /\ pc = "hibernate"
    /\ hibWakeSrc = "RTC_ALARM"
    /\ firesLeft > 0
    /\ firesLeft' = firesLeft - 1
    /\ fired' = fired + 1
    /\ resetReason' = "HIB_WAKEUP"
    /\ pc' = "cybsp_init"
    /\ irq_enabled' = FALSE
    /\ nvic_enabled' = FALSE
    /\ irqPending' = FALSE
    /\ attempts' = 0
    /\ rtc_result' = "NONE"
    /\ press_count' = 0
    /\ event' = SWITCH_NO_EVENT
    /\ alarm_flag' = 0
    /\ log' = << >>
    /\ calls' = 0
    /\ nFail' = 0
    /\ lastOutcome' = "NONE"
    /\ armRet' = "NONE"
    /\ sleepIssued' = "none"
    /\ bootFailed' = FALSE
    /\ wakeSrcSelected' = FALSE
    /\ gse_delays' = 0
    /\ UNCHANGED << NDEBUG, pair, fmt, hibWakeSrc >>

Next ==
    \/ BoardInit
    \/ UartInit
    \/ UartHalSetup
    \/ RetargetIoInit
    \/ Setup
    \/ CheckResetReason
    \/ RtcInitEntry
    \/ RtcInitAttempt
    \/ RtcInitReturn
    \/ PrintTime
    \/ PollPressed
    \/ PollReleased
    \/ Classify
    \/ SettleAndSwitch
    \/ AlarmConfigEntry
    \/ AlarmConfigAttempt
    \/ AlarmConfigReturn
    \/ DeepSleepLog
    \/ DeepSleepDelay
    \/ EnterDeepSleep
    \/ DeepSleepWakeLog
    \/ HibernateLog
    \/ HibernateDelay
    \/ SetHibernateWakeupSource
    \/ EnterHibernate
    \/ HibernateRejected
    \/ AlarmFire
    \/ Cy_RTC_Alarm2Interrupt
    \/ HibernateWakeup

Spec == Init /\ [][Next]_vars

(* ------------------------------------------------------------------ *)
(* rtc_init and rtc_alarmconfig side by side: each peripheral outcome   *)
(* is given to both loops, a loop that has returned stays as it is      *)
(* ------------------------------------------------------------------ *)
PairStep ==
    /\ ~(pair.init.done /\ pair.alarm.done)
    /\ pair.init.calls <= MAX_ATTEMPTS /\ pair.alarm.calls <= MAX_ATTEMPTS
    /\ \E r \in RtcStatus :
         pair' = [init |-> IF pair.init.done THEN pair.init
                           ELSE rtc_init_step(pair.init, r),
                  alarm |-> IF pair.alarm.done THEN pair.alarm
                            ELSE rtc_alarmconfig_step(pair.alarm, r)]
    /\ UNCHANGED << NDEBUG, fmt, pc, irq_enabled, nvic_enabled, irqPending, firesLeft,
                    fired, resetReason, hibWakeSrc, attempts, rtc_result,
                    press_count, event, alarm_flag, log, calls, nFail,
                    lastOutcome, armRet, sleepIssued, bootFailed,
                    wakeSrcSelected, gse_delays >>

SpecPair == Init /\ [][PairStep]_vars

(* ------------------------------------------------------------------ *)
(* convert_date_to_string, one sprintf at a time, for every value the   *)
(* RTC can give to the field                                            *)
(* ------------------------------------------------------------------ *)
FmtUnchanged ==
    UNCHANGED << NDEBUG, pair, pc, irq_enabled, nvic_enabled, irqPending,
                 firesLeft, fired, resetReason, hibWakeSrc, attempts, rtc_result,
                 press_count, event, alarm_flag, log, calls, nFail, lastOutcome,
                 armRet, sleepIssued, bootFailed, wakeSrcSelected, gse_delays >>

\* sprintf(secbuf, "%d", (int)sec); ... sprintf(yearbuf, "%d", (int)year);
SprintfField ==
    /\ fmt.idx < Len(FmtFields)
    /\ \E v \in FieldRange(FmtFields[fmt.idx + 1]) :
         fmt' = [idx |-> fmt.idx + 1, value |-> v, written |-> sprintf_written(v)]
    /\ FmtUnchanged

\* snprintf(buffer, sizeof(buffer), ...); return: the next call starts afresh
MergeFields ==
    /\ fmt.idx = Len(FmtFields)
    /\ fmt' = FmtStart
    /\ FmtUnchanged

SpecFmt == Init /\ [][SprintfField \/ MergeFields]_vars

TypeOK ==
    /\ NDEBUG \in BOOLEAN
    /\ pc \in AllPcs
    /\ irq_enabled \in BOOLEAN /\ nvic_enabled \in BOOLEAN /\ irqPending \in BOOLEAN
    /\ firesLeft \in 0..MaxFires /\ fired \in 0..MaxFires
    /\ resetReason \in {"POWER_ON", "HIB_WAKEUP"}
    /\ hibWakeSrc \in {"NONE", "RTC_ALARM"}
    /\ attempts \in 0..MAX_ATTEMPTS
    /\ rtc_result \in RtcStatus \cup {"NONE"}
    /\ press_count \in 0..MaxPress
    /\ event \in {SWITCH_NO_EVENT, SWITCH_SHORT_PRESS, SWITCH_LONG_PRESS}
    /\ alarm_flag \in {0, 1}
    /\ calls \in 0..MAX_ATTEMPTS /\ nFail \in 0..MAX_ATTEMPTS
    /\ lastOutcome \in RtcStatus \cup {"NONE"}
    /\ armRet \in RtcStatus \cup {"NONE"}
    /\ sleepIssued \in {"none", "deepsleep", "hibernate"}
    /\ bootFailed \in BOOLEAN
    /\ wakeSrcSelected \in BOOLEAN
    /\ gse_delays \in 0..(MaxPress + 1)
(* ------------------------------------------------------------------ *)
(* Properties                                                           *)
(* ------------------------------------------------------------------ *)

InAlarmConfig == pc \in {"ac_entry", "ac_loop", "ac_ret"}

\* C1: a deep-sleep or power-down instruction is issued only in a press cycle
\* whose alarm arming (rtc_alarmconfig) returned Success; an arming that
\* returned a failure is never followed by a sleep instruction.
C1_SleepOnlyAfterArmingSuccess ==
    sleepIssued # "none" => armRet = CY_RTC_SUCCESS

\* C2: in every press cycle each set-alarm call, and the successful return of
\* the arming, happens before the cycle's sleep instruction is issued: no
\* step calls set-alarm or completes an arming once the sleep instruction of
\* the cycle has been issued.
C2_ArmingPrecedesSleep ==
    [][ ( \/ (pc = "ac_loop" /\ calls' = calls + 1)
          \/ (armRet # CY_RTC_SUCCESS /\ armRet' = CY_RTC_SUCCESS) )
        => (sleepIssued = "none" /\ sleepIssued' = "none") ]_vars

\* a cycle in which the alarm was armed and the deep-sleep instruction followed
C2_Witness ==
    pc = "wfi" /\ sleepIssued = "deepsleep" /\ armRet = CY_RTC_SUCCESS

C4_FlagFalseAtRest ==
    /\ (pc = "cybsp_init" => alarm_flag = 0)
    /\ ( ( /\ pc = "gse_poll"
           /\ Len(log) > 0
           /\ log[Len(log)] = MsgWakeDeepSleep
           /\ fired = 1
           /\ ~irqPending )
         => alarm_flag = 0 )

\* C5: the classification of a press count d is Long iff d > 200, Short iff
\* 10 < d <= 200, None iff d <= 10; in particular 0 and 10 give None, 11 and
\* 200 give Short, 201 gives Long.
C5_Classification ==
    pc = "gse_settle" =>
        /\ (event = SWITCH_LONG_PRESS <=> press_count > 200)
        /\ (event = SWITCH_SHORT_PRESS <=> (press_count > 10 /\ press_count <= 200))
        /\ (event = SWITCH_NO_EVENT <=> press_count <= 10)
        /\ (press_count \in {0, 10} => event = SWITCH_NO_EVENT)
        /\ (press_count \in {11, 200} => event = SWITCH_SHORT_PRESS)
        /\ (press_count = 201 => event = SWITCH_LONG_PRESS)

\* a press of 201 quanta has been classified
C5_Witness ==
    pc = "gse_settle" /\ press_count = 201 /\ event = SWITCH_LONG_PRESS

\* C6: when set-alarm fails k < 500 times and then succeeds, rtc_alarmconfig
\* returns Success after exactly k + 1 invocations: the loop is never re-entered
\* after a success, and at the return the invocations are the failures plus one.
C6_SuccessAfterKPlusOne ==
    /\ (pc = "ac_loop" => (lastOutcome # CY_RTC_SUCCESS /\ calls = nFail))
    /\ ( (pc = "ac_ret" /\ lastOutcome = CY_RTC_SUCCESS)
         => /\ nFail < 500
            /\ calls = nFail + 1
            /\ rtc_alarmconfig_return(rtc_result) = CY_RTC_SUCCESS )

\* set-alarm failed 499 times and succeeded on the 500th invocation
C6_Witness ==
    pc = "ac_ret" /\ lastOutcome = CY_RTC_SUCCESS /\ nFail = 499

\* C7: when every invocation of set-alarm fails, rtc_alarmconfig stops after
\* exactly 500 invocations, never makes a 501st, and returns the outcome of
\* the last invocation.
C7_ExhaustionAfter500 ==
    /\ (InAlarmConfig => calls <= 500)
    /\ ( (pc = "ac_ret" /\ nFail = calls)
         => /\ calls = 500
            /\ lastOutcome \in RtcFailure
            /\ rtc_alarmconfig_return(rtc_result) = lastOutcome )

\* all 500 invocations failed and the function is about to return
C7_Witness ==
    pc = "ac_ret" /\ nFail = 500 /\ calls = 500

\* C8: a Short event leads only to the deep-sleep instruction, a Long event
\* only to the power-down instruction, and a None event leaves the loop in
\* Active without a set-alarm call, a log line or a sleep instruction.
C8_Routing ==
    /\ [] ( /\ (sleepIssued = "deepsleep" => event = SWITCH_SHORT_PRESS)
            /\ (sleepIssued = "hibernate" => event = SWITCH_LONG_PRESS)
            /\ (pc \in {"ds_log", "ds_delay", "ds_sleep", "wfi", "ds_wake_log"}
                  => event = SWITCH_SHORT_PRESS)
            /\ (pc \in {"hib_log", "hib_delay", "hib_src", "hib_enter",
                        "hib_reject", "hibernate"}
                  => event = SWITCH_LONG_PRESS)
            /\ (InAlarmConfig => event # SWITCH_NO_EVENT) )
    /\ [][ (pc = "gse_settle" /\ event = SWITCH_NO_EVENT /\ pc' # pc)
           => /\ pc' = "gse_poll"
              /\ log' = log
              /\ calls' = calls
              /\ sleepIssued' = "none" ]_vars

\* a Long press cycle that reached the power-down instruction
C8_Witness ==
    pc = "hibernate" /\ sleepIssued = "hibernate" /\ event = SWITCH_LONG_PRESS

\* C9: when Cy_SysPm_SystemEnterHibernate reports rejection the system enters
\* fail-stop: the step that handles the rejection leaves interrupts disabled
\* and the control loop halted.
C9_RejectionIsFailStop ==
    [][ (pc = "hib_reject" /\ pc' # pc)
        => (pc' = "halt" /\ ~irq_enabled') ]_vars

\* C10: when cybsp_init fails or rtc_init returns without Success, the control
\* loop never starts: no press is sampled, no alarm armed, no sleep issued.
C10_BootFailureIsFailStop ==
    bootFailed => (pc \notin LoopPcs /\ pc # "hibernate")

\* a step in which the pending alarm interrupt is taken and its handler runs
IsrStep ==
    /\ irqPending /\ ~irqPending'
    /\ irq_enabled /\ nvic_enabled
    /\ pc # "hibernate"

InSwitchEvent == pc \in {"gse_poll", "gse_classify", "gse_settle"}

CountLine(l, str) == Cardinality({i \in 1..Len(l) : l[i] = str})

\* C11: once the power-down instruction of a Long press cycle is accepted the
\* execution is terminal: "Go to Hibernate mode" has been logged, no wakeup
\* line follows it, the control loop is not resumed, and the only step left is
\* a restart of main from its entry with the reset cause set to Hibernate
\* wakeup and all program state (wake flag, log, cycle state) fresh.
C11_HibernateIsTerminal ==
    /\ [] ( pc = "hibernate" =>
              /\ Len(log) > 0
              /\ log[1] = "Go to Hibernate mode"
              /\ CountLine(log, "Wakeup from DeepSleep mode") = 0
              /\ CountLine(log, "Wakeup from the Hibernate mode") = 0 )
    /\ [][ (pc = "hibernate" /\ pc' # pc)
           => /\ pc' = "cybsp_init"
              /\ resetReason' = "HIB_WAKEUP"
              /\ log' = << >>
              /\ alarm_flag' = 0
              /\ ~irq_enabled'
              /\ sleepIssued' = "none" ]_vars

\* the device is powered down after a Long press whose arming succeeded
C11_Witness ==
    pc = "hibernate" /\ armRet = CY_RTC_SUCCESS /\ event = SWITCH_LONG_PRESS

\* C12: on a boot whose reset cause is Hibernate wakeup the startup path logs
\* "Wakeup from the Hibernate mode" exactly once, and it has done so before
\* the control loop is entered; no later step logs the line again.
C12_HibernateWakeupLogged ==
    /\ [] ( (resetReason = "HIB_WAKEUP"
             /\ pc \in {"ri_entry", "ri_loop", "ri_ret", "print_time"})
            => CountLine(log, "Wakeup from the Hibernate mode") = 1 )
    /\ [] ( CountLine(log, "Wakeup from the Hibernate mode") <= 1 )
    /\ [][ CountLine(log', "Wakeup from the Hibernate mode")
             > CountLine(log, "Wakeup from the Hibernate mode")
           => (pc = "reset_reason" /\ pc' \in BootPcs
               /\ resetReason = "HIB_WAKEUP") ]_vars

\* a boot after a wake from Hibernate is about to enter the control loop
C12_Witness ==
    /\ pc = "print_time"
    /\ resetReason = "HIB_WAKEUP"
    /\ hibWakeSrc = "RTC_ALARM"
    /\ CountLine(log, "Wakeup from the Hibernate mode") = 1

\* C13: in a Short press cycle "Go to DeepSleep mode" is logged before the
\* deep-sleep instruction is issued, the instruction is left only by taking an
\* interrupt, "Wakeup from DeepSleep mode" is logged only after that, in the
\* same cycle as its "Go to DeepSleep mode", and with it control returns to
\* sampling the button.
C13_DeepSleepCycle ==
    /\ [] ( sleepIssued = "deepsleep"
            => (Len(log) > 0 /\ log[1] = "Go to DeepSleep mode") )
    /\ [][ (pc = "wfi" /\ pc' # pc)
           => (IsrStep /\ pc' = "ds_wake_log") ]_vars
    /\ [][ (pc' = "ds_wake_log" /\ pc # "ds_wake_log") => pc = "wfi" ]_vars
    /\ [][ CountLine(log', "Wakeup from DeepSleep mode")
             > CountLine(log, "Wakeup from DeepSleep mode")
           => /\ pc = "ds_wake_log"
              /\ sleepIssued = "deepsleep"
              /\ log[1] = "Go to DeepSleep mode"
              /\ pc' = "gse_poll" ]_vars

\* a Short press cycle has completed and the loop samples the button again
C13_Witness ==
    /\ pc = "gse_poll"
    /\ log = << "Go to DeepSleep mode", MsgAlarm, "Wakeup from DeepSleep mode" >>

\* C14 as stated: a press held for 50 ms (5 polling quanta) is classified Short.
C14_FiftyMsIsShort ==
    (pc = "gse_settle" /\ press_count = 5) => event = SWITCH_SHORT_PRESS

\* C14 amended: a press held for more than 100 ms and at most 2 s (11 to 200
\* polling quanta) is classified Short and is switched to the DeepSleep
\* branch; with the arming succeeding on the first attempt the branch logs
\* "Go to DeepSleep mode", issues the deep-sleep instruction, and after the
\* interrupt taken in deep sleep logs "Wakeup from DeepSleep mode".
C14_ScenarioA ==
    /\ [] ( (pc = "gse_settle" /\ press_count \in 11..200)
            => event = SWITCH_SHORT_PRESS )
    /\ [] ( pc = "wfi"
            => (log = << "Go to DeepSleep mode", MsgAlarm >>
                /\ sleepIssued = "deepsleep") )
    /\ [][ pc' # pc =>
           /\ (pc = "gse_settle" /\ event = SWITCH_SHORT_PRESS => pc' = "ds_log")
           /\ (pc = "ds_log"
                 => (pc' = "ac_entry" /\ log' = << "Go to DeepSleep mode" >>))
           /\ (pc = "ac_entry" => pc' = "ac_loop")
           /\ (pc = "ac_loop" /\ calls = 0 /\ lastOutcome' = CY_RTC_SUCCESS
                 => (pc' = "ac_ret" /\ calls' = 1))
           /\ (pc = "ac_ret" /\ event = SWITCH_SHORT_PRESS
                 => (pc' = "ds_delay" /\ armRet' = rtc_result))
           /\ (pc = "ds_delay" => pc' = "ds_sleep")
           /\ (pc = "ds_sleep" => pc' = "wfi")
           /\ (pc = "wfi" => (IsrStep /\ pc' = "ds_wake_log"))
           /\ (pc = "ds_wake_log"
                 => (pc' = "gse_poll"
                     /\ log' = Append(log, "Wakeup from DeepSleep mode"))) ]_vars

\* the interrupt has ended the deep sleep of a cycle whose arming succeeded
C14_Witness ==
    /\ pc = "ds_wake_log"
    /\ armRet = CY_RTC_SUCCESS
    /\ alarm_flag = 1
    /\ log = << "Go to DeepSleep mode", MsgAlarm >>

\* C15: a run of the alarm interrupt handler sets alarm_flag to 1 and changes
\* nothing else of the program: no log line, no set-alarm call, no change of
\* the retry, press, cycle or wake-source state; the control loop stays where
\* it was, except that a CPU waiting in deep sleep resumes after the wait.
C15_HandlerFrame ==
    [][ IsrStep =>
        /\ alarm_flag' = 1
        /\ UNCHANGED << log, attempts, rtc_result, calls, nFail, lastOutcome,
                        firesLeft, fired, hibWakeSrc, resetReason, press_count,
                        gse_delays, event, armRet, sleepIssued, wakeSrcSelected,
                        irq_enabled, nvic_enabled, bootFailed >>
        /\ (pc' = pc \/ (pc = "wfi" /\ pc' = "ds_wake_log")) ]_vars

\* the handler has run during the settle delay of the Short branch
C15_Witness ==
    pc = "ds_delay" /\ alarm_flag = 1 /\ ~irqPending /\ fired > 0

\* C16: in a Long press cycle the alarm is selected as Hibernate wake source
\* before the power-down instruction is issued, and the instruction is never
\* issued in a cycle in which the wake source has not been selected.
C16_WakeSourceBeforePowerDown ==
    /\ [] ( sleepIssued = "hibernate"
            => (wakeSrcSelected /\ hibWakeSrc = "RTC_ALARM") )
    /\ [][ (wakeSrcSelected' /\ ~wakeSrcSelected)
           => (sleepIssued = "none" /\ sleepIssued' = "none") ]_vars
    /\ [][ (sleepIssued' = "hibernate" /\ sleepIssued # "hibernate")
           => (wakeSrcSelected /\ hibWakeSrc = "RTC_ALARM") ]_vars

\* the device is powered down with the wake source selected in this cycle
C16_Witness ==
    pc = "hibernate" /\ sleepIssued = "hibernate" /\ wakeSrcSelected

\* C17: no press is sampled or classified while an alarm arming is unresolved:
\* during get_switch_event no retry loop is open and no arming result of the
\* cycle is outstanding, an arming starts only in a cycle that has not armed
\* yet, and the interrupt handler neither samples nor calls set-alarm.
C17_OneArmingAtATime ==
    /\ [] ( InSwitchEvent
            => (calls = 0 /\ attempts = 0 /\ rtc_result = "NONE" /\ armRet = "NONE") )
    /\ [] ( InAlarmConfig => (press_count = 0 /\ armRet = "NONE") )
    /\ [][ IsrStep
           => UNCHANGED << calls, attempts, rtc_result, press_count, event >> ]_vars

\* an arming is in progress and has been preempted by the handler
C17_Witness ==
    pc = "ac_loop" /\ calls = 3 /\ alarm_flag = 1

\* C18: given the same sequence of peripheral outcomes, rtc_init and
\* rtc_alarmconfig make the same number of attempts and of 5 ms delays, stop
\* at the same point and return the same outcome.
C18_SameRetryProtocol ==
    /\ pair.init.done = pair.alarm.done
    /\ pair.init.calls = pair.alarm.calls
    /\ pair.init.delays = pair.alarm.delays
    /\ pair.init.attempts = pair.alarm.attempts
    /\ pair.init.rtc_result = pair.alarm.rtc_result

\* both loops have returned after the whole budget of failing attempts
C18_Witness ==
    /\ pair.init.done /\ pair.alarm.done
    /\ pair.init.calls = 500
    /\ pair.alarm.rtc_result \in RtcFailure

\* C19: after n pressed reads and a released read get_switch_event has made
\* n 10 ms delays and press_count is n; it classifies that count, makes exactly
\* one more 10 ms delay before it returns, and does nothing else: no log line,
\* no set-alarm call, no write of the wake flag.
C19_SwitchEventCount ==
    /\ [] ( (pc \in {"gse_classify", "gse_settle"} \/ (pc = "gse_poll" /\ press_count > 0))
            => gse_delays = press_count )
    /\ [] ( pc = "gse_settle" =>
              event = IF press_count > 200 THEN SWITCH_LONG_PRESS
                      ELSE IF press_count > 10 THEN SWITCH_SHORT_PRESS
                      ELSE SWITCH_NO_EVENT )
    /\ [][ (pc = "gse_poll" /\ pc' = "gse_poll" /\ press_count' # press_count)
           => press_count' = press_count + 1 ]_vars
    /\ [][ (pc = "gse_settle" /\ pc' # pc)
           => gse_delays' = press_count + 1 ]_vars
    /\ [][ (InSwitchEvent /\ ~IsrStep)
           => /\ (log' = log \/ log' = << >>)
              /\ calls' = calls
              /\ alarm_flag' = alarm_flag
              /\ firesLeft' <= firesLeft ]_vars

\* a press of 11 quanta has been returned to main: 11 + 1 delays
C19_Witness ==
    pc = "ds_log" /\ gse_delays = 12

\* C20: the attempts counter of rtc_init and rtc_alarmconfig stays in 0..500:
\* it is 500 minus the invocations made, the loop is only continued with a
\* counter above 0, and it never wraps below 0.
C20_AttemptsInRange ==
    /\ attempts \in 0..500
    /\ (pc \in {"ri_loop", "ri_ret", "ac_loop", "ac_ret"} => attempts = 500 - calls)
    /\ (pc \in {"ri_loop", "ac_loop"} => attempts > 0)

\* rtc_init has used its whole budget: 500 invocations, counter at 0
C20_Witness ==
    pc = "ri_ret" /\ attempts = 0 /\ calls = 500

\* C21: for every RTC time value in its valid range the characters that
\* convert_date_to_string writes for a field, the terminating NUL included,
\* fit the field's 2-byte buffer.
C21_FieldFitsBuffer ==
    fmt.written <= FIELD_BUF_SIZE

====
